---- MODULE Spec2Model ----
(***************************************************************************)
(* My Personal Terminal (src/terminal.py): the login/registration flow,    *)
(* the PIN lock, the per-account workspace on disk (categories, entries,   *)
(* preferences, web aliases) and the command handlers of the cmd loop.     *)
(*                                                                         *)
(* Text is modelled as a sequence of one-character strings, so that        *)
(* strip, split, join, lower and normalize_title are computed as Python    *)
(* computes them.  The file system is POSIX-like: names are compared       *)
(* character by character (case-sensitive).  One action is one handler, or *)
(* one iteration of a loop that blocks on input().                         *)
(***************************************************************************)
EXTENDS Integers, Sequences, FiniteSets, TLC

(***************************************************************************)
(* Python string operations                                                *)
(***************************************************************************)
\* str.isspace for one character
IsSpace(c) == c \in {" ", "\t", "\n"}

\* str.isdigit for one character: the decimal digits and the other characters
\* Unicode gives a digit value, of which sup2 stands for U+00B2, superscript two
IsDigitChar(c) == c \in {"0", "1", "2", "3", "4", "5", "6", "7", "8", "9", "sup2"}

\* the letters, for str.lower
UpperLetters ==
    <<"A", "B", "C", "D", "E", "F", "G", "H", "I", "J", "K", "L", "M", "N", "O", "P", "Q",
      "R", "S", "T", "U", "V", "W", "X", "Y", "Z">>

LowerLetters ==
    <<"a", "b", "c", "d", "e", "f", "g", "h", "i", "j", "k", "l", "m", "n", "o", "p", "q",
      "r", "s", "t", "u", "v", "w", "x", "y", "z">>

\* str.lower for one character
LowerChar(c) ==
    IF \E i \in 1..26 : UpperLetters[i] = c
    THEN LowerLetters[CHOOSE i \in 1..26 : UpperLetters[i] = c]
    ELSE c

RECURSIVE Lower(_)
Lower(s) == IF s = <<>> THEN <<>> ELSE <<LowerChar(Head(s))>> \o Lower(Tail(s))

RECURSIVE LStrip(_)
LStrip(s) == IF s # <<>> /\ IsSpace(Head(s)) THEN LStrip(Tail(s)) ELSE s

RECURSIVE RStrip(_)
RStrip(s) ==
    IF s # <<>> /\ IsSpace(s[Len(s)]) THEN RStrip(SubSeq(s, 1, Len(s) - 1)) ELSE s

Strip(s) == RStrip(LStrip(s))

\* length of the leading run of non-whitespace characters
RECURSIVE WordLen(_)
WordLen(s) == IF s = <<>> \/ IsSpace(Head(s)) THEN 0 ELSE 1 + WordLen(Tail(s))

\* str.split(maxsplit=k) on whitespace; k < 0 means no limit.  With a limit,
\* the remainder keeps its trailing whitespace, as in Python.
RECURSIVE Split(_, _)
Split(s, k) ==
    LET t == LStrip(s) IN
    IF t = <<>> THEN <<>>
    ELSE IF k = 0 THEN <<t>>
    ELSE LET n == WordLen(t) IN
         <<SubSeq(t, 1, n)>> \o Split(SubSeq(t, n + 1, Len(t)), k - 1)

\* sep.join(parts)
RECURSIVE Join(_, _)
Join(sep, parts) ==
    IF parts = <<>> THEN <<>>
    ELSE IF Len(parts) = 1 THEN parts[1]
    ELSE parts[1] \o sep \o Join(sep, Tail(parts))

\* c in s, for one character c
HasChar(s, c) == \E i \in 1..Len(s) : s[i] = c

\* index of the first c in s (c occurs in s)
FirstIndex(s, c) == CHOOSE i \in 1..Len(s) : s[i] = c /\ \A j \in 1..(i - 1) : s[j] # c

\* str.isdigit: non-empty and all digits
IsDigit(s) == s # <<>> /\ \A i \in 1..Len(s) : IsDigitChar(s[i])

\* needle in hay (substring test)
Contains(hay, needle) ==
    \E i \in 0..(Len(hay) - Len(needle)) :
        \A j \in 1..Len(needle) : hay[i + j] = needle[j]

(***************************************************************************)
(* Helpers of terminal.py                                                  *)
(***************************************************************************)
\* None
None == <<>>

\* hashlib.sha256(text).hexdigest(): deterministic, never empty, and distinct
\* texts give distinct digests
shash(text) == <<"#">> \o text

\* a normalization that trims but leaves inner whitespace as typed
normalize_titleStripOnly(title) == Strip(title)

\* "_".join(title.strip().split())
normalize_title(title) == Join(<<"_">>, Split(Strip(title), -1))

\* the file name of an entry
EntryFile(title) == normalize_title(title) \o <<".", "t", "x", "t">>

DEFAULT_CATEGORIES ==
    { <<"n", "o", "t", "e", "s">>,
      <<"c", "o", "n", "t", "a", "c", "t", "s">>,
      <<"p", "a", "s", "s", "w", "o", "r", "d", "s">>,
      <<"p", "r", "o", "j", "e", "c", "t", "s">> }

\* a JSON object or a directory with nothing in it
EmptyMap == [k \in {} |-> k]

\* d[k] = v (a key added or overwritten)
Put(d, k, v) == [x \in DOMAIN d \cup {k} |-> IF x = k THEN v ELSE d[x]]

\* del d[k]
Del(d, k) == [x \in DOMAIN d \ {k} |-> d[x]]

\* {"theme": "dark", "prompt": "myterm> ", "banner": True}
DefaultPrompt == <<"m", "y", "t", "e", "r", "m", ">", " ">>

DefaultConfig == [theme |-> <<"d", "a", "r", "k">>, prompt |-> DefaultPrompt, banner |-> TRUE]

\* {"yt": "https://youtube.com", "gg": "https://google.com"}
DefaultShortcuts ==
    Put(Put(EmptyMap, <<"y", "t">>,
            <<"h", "t", "t", "p", "s", ":", "/", "/", "y", "o", "u", "t", "u", "b", "e", ".", "c", "o", "m">>),
        <<"g", "g">>,
        <<"h", "t", "t", "p", "s", ":", "/", "/", "g", "o", "o", "g", "l", "e", ".", "c", "o", "m">>)

(***************************************************************************)
(* State                                                                   *)
(***************************************************************************)
VARIABLES
    users,          \* users.json: username -> [password_hash, pin_hash]
    dirs,           \* category directories on disk: <<username, category>>
    files,          \* entry files on disk: <<username, category, file name>> -> text
    config,         \* config.json of each user root: username -> [theme, prompt, banner]
    shortcuts,      \* web_shortcuts.json of each user root: username -> (alias -> url)
    pc,             \* where the process is: "start", a blocking input loop, "cmd", "terminated"
    username,       \* self.username
    authenticated,  \* self.authenticated
    pin_hash,       \* self.pin_hash
    theme,          \* self.theme
    custom_prompt,  \* self.custom_prompt
    banner_on,      \* self.banner_on (set by _load_user_config; TRUE before that)
    attempts,       \* iterations of the login loop already failed
    reg,            \* locals of _register_user: [username, pw]
    out,            \* what the last step printed: [msg, body, names, hits, value]
    exit_code,      \* exit status of the process once terminated, -1 while it runs
    clock           \* the wall clock, in seconds

disk == <<users, dirs, files, config, shortcuts>>
session == <<username, authenticated, pin_hash, theme, custom_prompt, banner_on>>
vars == <<users, dirs, files, config, shortcuts, pc, username, authenticated, pin_hash,
          theme, custom_prompt, banner_on, attempts, reg, out, exit_code, clock>>

\* what a step prints: a message, the text of an entry, a sorted list of names,
\* the unordered matches of a search, the value of a calculation
Out(m, b, n, h, v) == [msg |-> m, body |-> b, names |-> n, hits |-> h, value |-> v]

Msg(m) == Out(m, <<>>, <<>>, {}, None)

\* MyPersonalTerminal.__init__ on a machine where nothing was ever stored
Init ==
    /\ users = EmptyMap
    /\ dirs = {}
    /\ files = EmptyMap
    /\ config = EmptyMap
    /\ shortcuts = EmptyMap
    /\ pc = "start"
    /\ username = None
    /\ authenticated = FALSE
    /\ pin_hash = None
    /\ theme = <<"d", "a", "r", "k">>
    /\ custom_prompt = DefaultPrompt
    /\ banner_on = TRUE
    /\ attempts = 0
    /\ reg = [username |-> None, pw |-> None]
    /\ out = Msg("")
    /\ exit_code = -1
    /\ clock = 0

(***************************************************************************)
(* Lines the operator types at the prompts                                 *)
(***************************************************************************)
\* input("Do you want to (l)ogin or (r)egister? [l/r]: ")
ChoiceLines == { <<"l">>, <<" ", "R">>, <<"x">> }

\* input("Choose a username: ") and input("Username: ")
UsernameLines == { <<"a", "l">>, <<" ", "a", "l", " ">>, <<"b", "o">>, <<" ">> }

\* input("Choose a password: "), input("Confirm password: ") and input("Password: ")
PasswordLines == { <<"p">>, <<"q">>, <<"p", " ">>, <<>> }

\* input("Set a 4-8 digit PIN? (optional) [y/N]: ")
YesNoLines == { <<"Y">>, <<"n">>, <<>> }

\* input("Enter PIN (4-8 digits): ") of _register_user
RegisterPinLines == { <<"1", "2", "3", "4">>, <<"1", "2">> }

\* every other input("...PIN...: "); lines typed at the PIN prompt of a locked terminal
\* may as well be commands
PinLines ==
    { <<"1", "2", "3", "4">>, <<" ", "1", "2", "3", "4">>, <<"0", "0", "0", "0">>,
      <<"1", "2">>, <<"e", "x", "i", "t">>,
      <<"c", "a", "t", "e", "g", "o", "r", "i", "e", "s", " ", "d", "e", "l", " ", "n", "o", "t", "e", "s">> }

\* category names the operator types: a default category and one of their own
CategoryWords == { <<"n", "o", "t", "e", "s">>, <<"w">> }

MyTitle == <<"M", "y", " ", "T", "i", "t", "l", "e">>

MyTitleWide == <<"M", "y", " ", " ", "T", "i", "t", "l", "e">>

myTitleLower == <<"m", "y", " ", " ", " ", "t", "i", "t", "l", "e">>


\* titles the operator saves under
SaveTitles == { MyTitle, MyTitleWide, <<"A", "l", "l">> }

\* titles the operator asks for
ViewTitles == SaveTitles \cup { myTitleLower, <<"a", "l", "l">> }

\* contents the operator saves; the cmd loop strips the line it parses, so a
\* content ends in no whitespace
Contents == { <<"b", "o", "d", "y">>, <<"H", "i">> }

\* the argument of save and of edit as the cmd loop passes it: <category> <title>|<content>
SaveArg(category, title, content) == category \o <<" ">> \o title \o <<"|">> \o content

\* the argument of view and of delete as the cmd loop passes it: <category> <title>
ViewArg(category, title) == category \o <<" ">> \o title

Notes == <<"n", "o", "t", "e", "s">>

\* arguments typed after save and edit, some of them malformed
SaveArgs ==
    { SaveArg(Notes, t, x) : t \in SaveTitles, x \in Contents }
    \cup { SaveArg(<<"w">>, <<"A", "l", "l">>, <<"H", "i">>),
           <<"n", "o", "t", "e", "s", " ", "A", "l", "l">>,
           <<"n", "o", "t", "e", "s", "|", "H", "i">> }

\* arguments typed after view and delete, one of them malformed
ViewArgs ==
    { ViewArg(c, t) : c \in CategoryWords, t \in ViewTitles } \cup { Notes }

\* the argument of categories
CategoriesArgs ==
    { <<>>, <<"a", "d", "d", " ", "w">>, <<"d", "e", "l", " ", "w">>,
      <<"d", "e", "l", " ", "n", "o", "t", "e", "s">>, <<"d", "e", "l">> }

(***************************************************************************)
(* Start of a process: preloop up to the first prompt                      *)
(***************************************************************************)
\* an initialisation that makes the default categories for a new account only
InitDirsFirstOnly(u) ==
    IF u \in DOMAIN config THEN dirs ELSE dirs \cup { <<u, c>> : c \in DEFAULT_CATEGORIES }

\* _init_user_space: the data directory with the default categories
InitDirs(u) == dirs \cup { <<u, c>> : c \in DEFAULT_CATEGORIES }

\* an initialisation that writes the default config.json over the one stored
InitConfigOverwrites(u) == Put(config, u, DefaultConfig)

\* _init_user_space: config.json, written only if missing
InitConfig(u) == IF u \in DOMAIN config THEN config ELSE Put(config, u, DefaultConfig)

\* _init_user_space: web_shortcuts.json, written only if missing
InitShortcuts(u) ==
    IF u \in DOMAIN shortcuts THEN shortcuts ELSE Put(shortcuts, u, DefaultShortcuts)

\* the end of _register_user and of a successful _login_user, and the rest of
\* preloop: _init_user_space, _load_user_config; the cmd loop then prompts
EnterSession(u, ph) ==
    /\ username' = u
    /\ authenticated' = TRUE
    /\ pin_hash' = ph
    /\ dirs' = InitDirs(u)
    /\ config' = InitConfig(u)
    /\ shortcuts' = InitShortcuts(u)
    /\ theme' = InitConfig(u)[u].theme
    /\ custom_prompt' = InitConfig(u)[u].prompt
    /\ banner_on' = InitConfig(u)[u].banner
    /\ pc' = "cmd"

\* preloop, _load_users and the head of _login_or_register: with no users the
\* process registers one, otherwise it asks
preloop ==
    /\ pc = "start"
    /\ pc' = IF DOMAIN users = {} THEN "reg_user" ELSE "choice"
    /\ out' = Msg("Welcome to your Personal Terminal.")
    /\ UNCHANGED <<disk, session, attempts, reg, exit_code, clock>>

\* one iteration of the loop of _login_or_register
login_or_register(line) ==
    /\ pc = "choice"
    /\ LET choice == Lower(Strip(line)) IN
       pc' = IF choice = <<"r">> THEN "reg_user"
             ELSE IF choice = <<"l">> THEN "login"
             ELSE "choice"
    /\ out' = Msg("")
    /\ UNCHANGED <<disk, session, attempts, reg, exit_code, clock>>

(***************************************************************************)
(* _register_user                                                          *)
(***************************************************************************)
\* a username loop that takes a name already in use
register_usernameOverwrites(line) ==
    /\ pc = "reg_user"
    /\ LET name == Strip(line) IN
       IF name = <<>>
       THEN /\ out' = Msg("Username cannot be empty.")
            /\ UNCHANGED <<pc, reg>>
       ELSE /\ out' = Msg("")
            /\ reg' = [reg EXCEPT !.username = name]
            /\ pc' = "reg_pw"
    /\ UNCHANGED <<disk, session, attempts, exit_code, clock>>

\* one iteration of the username loop
register_username(line) ==
    /\ pc = "reg_user"
    /\ LET name == Strip(line) IN
       IF name = <<>>
       THEN /\ out' = Msg("Username cannot be empty.")
            /\ UNCHANGED <<pc, reg>>
       ELSE IF name \in DOMAIN users
       THEN /\ out' = Msg("User already exists. Pick another name.")
            /\ UNCHANGED <<pc, reg>>
       ELSE /\ out' = Msg("")
            /\ reg' = [reg EXCEPT !.username = name]
            /\ pc' = "reg_pw"
    /\ UNCHANGED <<disk, session, attempts, exit_code, clock>>

\* one iteration of the password loop: the password, then its confirmation
register_password(line, confirmLine) ==
    /\ pc = "reg_pw"
    /\ LET pw == Strip(line) IN
       IF pw = <<>>
       THEN /\ out' = Msg("Password cannot be empty.")
            /\ UNCHANGED <<pc, reg>>
       ELSE IF pw # Strip(confirmLine)
       THEN /\ out' = Msg("Passwords do not match.")
            /\ UNCHANGED <<pc, reg>>
       ELSE /\ out' = Msg("")
            /\ reg' = [reg EXCEPT !.pw = pw]
            /\ pc' = "reg_setpin"
    /\ UNCHANGED <<disk, session, attempts, exit_code, clock>>

\* pin.isdigit() and 4 <= len(pin) <= 8
ValidPin(pin) == IsDigit(pin) /\ 4 <= Len(pin) /\ Len(pin) <= 8

\* self.users[username] = {...}; _save_users(); the session is logged in
register_store(ph) ==
    /\ users' = Put(users, reg.username, [password_hash |-> shash(reg.pw), pin_hash |-> ph])
    /\ EnterSession(reg.username, ph)
    /\ reg' = [username |-> None, pw |-> None]
    /\ out' = Msg("User registered and logged in.")
    /\ UNCHANGED <<files, attempts, exit_code, clock>>

\* the answer to "Set a 4-8 digit PIN?"; without a PIN the account is stored
register_setpin(line) ==
    /\ pc = "reg_setpin"
    /\ IF Lower(Strip(line)) = <<"y">>
       THEN /\ pc' = "reg_pin"
            /\ out' = Msg("")
            /\ UNCHANGED <<disk, session, attempts, reg, exit_code, clock>>
       ELSE register_store(None)

\* one iteration of the PIN loop of _register_user
register_pin(line) ==
    /\ pc = "reg_pin"
    /\ LET pin == Strip(line) IN
       IF ValidPin(pin)
       THEN register_store(shash(pin))
       ELSE /\ out' = Msg("Invalid PIN. Use 4-8 digits.")
            /\ UNCHANGED <<disk, session, pc, attempts, reg, exit_code, clock>>

(***************************************************************************)
(* _login_user                                                             *)
(***************************************************************************)
\* a loop that gives up one attempt early
LoginAttemptsFour == 5 - 1

\* for _ in range(5)
LOGIN_ATTEMPTS == 5

\* a check that forgets the password
CredentialsMatchNameOnly(name, pw) == name \in DOMAIN users

\* username in self.users and self.users[username]["password_hash"] == shash(pw)
CredentialsMatch(name, pw) ==
    name \in DOMAIN users /\ users[name].password_hash = shash(pw)

\* one iteration of the loop of _login_user; the fifth failure prints Invalid
\* credentials. as the others do and falls out of the loop into the last line
\* printed and sys.exit(1)
login_user(userLine, pwLine) ==
    /\ pc = "login"
    /\ LET name == Strip(userLine)
           pw == Strip(pwLine)
       IN IF CredentialsMatch(name, pw)
          THEN /\ EnterSession(name, users[name].pin_hash)
               /\ out' = Msg("Login successful.")
               /\ UNCHANGED <<users, files, attempts, reg, exit_code, clock>>
          ELSE /\ attempts' = attempts + 1
               /\ IF attempts + 1 >= LOGIN_ATTEMPTS
                  THEN /\ pc' = "terminated"
                       /\ exit_code' = 1
                       /\ out' = Msg("Too many failed attempts. Exiting.")
                  ELSE /\ out' = Msg("Invalid credentials.")
                       /\ UNCHANGED <<pc, exit_code>>
               /\ UNCHANGED <<disk, session, reg, clock>>

(***************************************************************************)
(* Security: PIN lock                                                      *)
(***************************************************************************)
\* a comparison that accepts every PIN
PinMatchesAny(pin) == TRUE

\* shash(pin) == self.pin_hash
PinMatches(pin) == shash(pin) = pin_hash

\* a lock that does not look for a PIN
do_lockAlways ==
    /\ pc = "cmd"
    /\ out' = Msg("Locked. Enter PIN to continue.")
    /\ pc' = "locked"
    /\ UNCHANGED <<disk, session, attempts, reg, exit_code, clock>>

\* do_lock up to its loop: without a PIN the command only reports
do_lock ==
    /\ pc = "cmd"
    /\ IF pin_hash = None
       THEN /\ out' = Msg("No PIN set. Use 'setpin' to create one.")
            /\ UNCHANGED pc
       ELSE /\ out' = Msg("Locked. Enter PIN to continue.")
            /\ pc' = "locked"
    /\ UNCHANGED <<disk, session, attempts, reg, exit_code, clock>>

\* a locked terminal that hands a line that is no PIN to the command loop
lock_pinRunsCommands(line) ==
    /\ pc = "locked"
    /\ IF shash(Strip(line)) = pin_hash
       THEN /\ out' = Msg("Unlocked.")
            /\ pc' = "cmd"
            /\ UNCHANGED <<dirs, exit_code>>
       ELSE IF Strip(line) = <<"e", "x", "i", "t">>
       THEN /\ out' = Msg("Goodbye!")
            /\ pc' = "terminated"
            /\ exit_code' = 0
            /\ UNCHANGED dirs
       ELSE /\ out' = Msg("Wrong PIN.")
            /\ dirs' = IF Split(line, -1) = << <<"c", "a", "t", "e", "g", "o", "r", "i", "e", "s">>,
                                              <<"d", "e", "l">>, <<"n", "o", "t", "e", "s">> >>
                       THEN dirs \ { <<username, <<"n", "o", "t", "e", "s">> >> }
                       ELSE dirs
            /\ UNCHANGED <<pc, exit_code>>
    /\ UNCHANGED <<users, files, config, shortcuts, session, attempts, reg, clock>>

\* one iteration of the loop of do_lock: whatever line is typed is a PIN attempt
lock_pin(line) ==
    /\ pc = "locked"
    /\ IF PinMatches(Strip(line))
       THEN /\ out' = Msg("Unlocked.")
            /\ pc' = "cmd"
       ELSE /\ out' = Msg("Wrong PIN.")
            /\ UNCHANGED pc
    /\ UNCHANGED <<disk, session, attempts, reg, exit_code, clock>>

\* do_setpin up to its loop: the old PIN is asked for only if one is set
do_setpin(oldLine) ==
    /\ pc = "cmd"
    /\ IF pin_hash # None /\ ~PinMatches(Strip(oldLine))
       THEN /\ out' = Msg("Incorrect old PIN.")
            /\ UNCHANGED pc
       ELSE /\ out' = Msg("")
            /\ pc' = "setpin_new"
    /\ UNCHANGED <<disk, session, attempts, reg, exit_code, clock>>

\* one iteration of the loop of do_setpin: the new PIN, then its confirmation
setpin_new(line, confirmLine) ==
    /\ pc = "setpin_new"
    /\ LET pin == Strip(line) IN
       IF ~ValidPin(pin)
       THEN /\ out' = Msg("Invalid PIN format.")
            /\ UNCHANGED <<users, pin_hash, pc>>
       ELSE IF Strip(confirmLine) # pin
       THEN /\ out' = Msg("PINs do not match.")
            /\ UNCHANGED <<users, pin_hash, pc>>
       ELSE /\ pin_hash' = shash(pin)
            /\ users' = [users EXCEPT ![username].pin_hash = shash(pin)]
            /\ out' = Msg("PIN updated.")
            /\ pc' = "cmd"
    /\ UNCHANGED <<dirs, files, config, shortcuts, username, authenticated, theme,
                   custom_prompt, banner_on, attempts, reg, exit_code, clock>>

\* do_clearpin
do_clearpin(line) ==
    /\ pc = "cmd"
    /\ IF pin_hash = None
       THEN /\ out' = Msg("No PIN set.")
            /\ UNCHANGED <<users, pin_hash>>
       ELSE IF PinMatches(Strip(line))
       THEN /\ pin_hash' = None
            /\ users' = [users EXCEPT ![username].pin_hash = None]
            /\ out' = Msg("PIN cleared.")
       ELSE /\ out' = Msg("Wrong PIN.")
            /\ UNCHANGED <<users, pin_hash>>
    /\ UNCHANGED <<dirs, files, config, shortcuts, pc, username, authenticated, theme,
                   custom_prompt, banner_on, attempts, reg, exit_code, clock>>

(***************************************************************************)
(* Exit                                                                    *)
(***************************************************************************)
\* do_exit and do_quit: cmdloop returns, the process ends normally
do_exit ==
    /\ pc = "cmd"
    /\ pc' = "terminated"
    /\ exit_code' = 0
    /\ out' = Msg("Goodbye!")
    /\ UNCHANGED <<disk, session, attempts, reg, clock>>

\* the positions at which the process blocks reading a line
Prompts == {"choice", "reg_user", "reg_pw", "reg_setpin", "reg_pin", "login", "cmd",
            "locked", "setpin_new"}

\* main: KeyboardInterrupt raised at a prompt is caught and the process ends
KeyboardInterrupt ==
    /\ pc \in Prompts
    /\ pc' = "terminated"
    /\ exit_code' = 0
    /\ out' = Msg("Interrupted. Bye!")
    /\ UNCHANGED <<disk, session, attempts, reg, clock>>

\* main, in a later invocation: a new MyPersonalTerminal over the same disk
main ==
    /\ pc = "terminated"
    /\ pc' = "start"
    /\ username' = None
    /\ authenticated' = FALSE
    /\ pin_hash' = None
    /\ theme' = <<"d", "a", "r", "k">>
    /\ custom_prompt' = DefaultPrompt
    /\ banner_on' = TRUE
    /\ attempts' = 0
    /\ reg' = [username |-> None, pw |-> None]
    /\ out' = Msg("")
    /\ exit_code' = -1
    /\ UNCHANGED <<disk, clock>>

(***************************************************************************)
(* Personal data: categories and entries                                   *)
(***************************************************************************)
\* the characters of the model in code-point order, as sorted() compares them
CodePoints ==
    <<"\t", "\n", " ", "#", "-", ".", "/", "0", "1", "2", "3", "4", "5", "6", "7", "8", "9",
      ":", ">">> \o UpperLetters \o <<"_">> \o LowerLetters \o <<"|">>

Ord(c) == CHOOSE i \in 1..Len(CodePoints) : CodePoints[i] = c

\* a < b for two strings
RECURSIVE StrLess(_, _)
StrLess(a, b) ==
    IF b = <<>> THEN FALSE
    ELSE IF a = <<>> THEN TRUE
    ELSE IF Head(a) = Head(b) THEN StrLess(Tail(a), Tail(b))
    ELSE Ord(Head(a)) < Ord(Head(b))

\* sorted(names)
RECURSIVE Sorted(_)
Sorted(names) ==
    IF names = {} THEN <<>>
    ELSE LET least == CHOOSE n \in names : \A m \in names \ {n} : StrLess(n, m)
         IN <<least>> \o Sorted(names \ {least})

\* category_dir(username, category).exists(); the category names typed hold
\* no "/"
CategoryExists(u, category) == <<u, category>> \in dirs

\* the names of the files of a category directory in the file table fs
EntryNames(fs, u, category) == { k[3] : k \in { f \in DOMAIN fs : f[1] = u /\ f[2] = category } }

\* cdir.iterdir() and cdir.glob("*.txt"): entry files are all a category holds
FilesIn(u, category) == EntryNames(files, u, category)

\* a check that takes every category for empty
CategoryEmptyAlways(u, category) == TRUE

\* not any(cdir.iterdir())
CategoryEmpty(u, category) == FilesIn(u, category) = {}

\* datetime.now().strftime("%Y-%m-%d %H:%M:%S"), the clock counting seconds
FormatTime(t) ==
    LET d == <<"0", "1", "2", "3", "4", "5", "6", "7", "8", "9">> IN
    <<"2", "0", "2", "5", "-", "0", "1", "-", "0", "1", " ", "0", "0", ":", "0", "0", ":">>
    \o <<d[((t \div 10) % 6) + 1], d[(t % 10) + 1]>>

\* f"{content.rstrip()}\n\n---\nSaved on: {ts}\nTitle: {title}\nCategory: {category}\n"
EntryText(category, title, content, ts) ==
    RStrip(content)
    \o <<"\n", "\n", "-", "-", "-", "\n", "S", "a", "v", "e", "d", " ", "o", "n", ":", " ">> \o ts
    \o <<"\n", "T", "i", "t", "l", "e", ":", " ">> \o title
    \o <<"\n", "C", "a", "t", "e", "g", "o", "r", "y", ":", " ">> \o category
    \o <<"\n">>

\* the last second of the model's clock
MaxClock == 1

\* the components of a relative path, split at "/"
RECURSIVE PathParts(_)
PathParts(s) ==
    IF ~HasChar(s, "/") THEN <<s>>
    ELSE <<SubSeq(s, 1, FirstIndex(s, "/") - 1)>>
         \o PathParts(SubSeq(s, FirstIndex(s, "/") + 1, Len(s)))

\* the directories under APP_ROOT/users, each by its components: users itself,
\* the root of an account that has a workspace, its data directory and its
\* category directories in the table ds
IsDir(ds, p) ==
    CASE Len(p) = 0 -> DOMAIN config # {}
      [] Len(p) = 1 -> p[1] \in DOMAIN config
      [] Len(p) = 2 -> p[1] \in DOMAIN config /\ p[2] = <<"d", "a", "t", "a">>
      [] Len(p) = 3 -> p[2] = <<"d", "a", "t", "a">> /\ <<p[1], p[3]>> \in ds
      [] OTHER -> FALSE

NoDir == <<"?">>

Elsewhere == <<"^">>

\* the directory the components lead to from dir, as the file system walks
\* them: every directory on the way has to be there, ".." is its parent;
\* NoDir if one is missing, Elsewhere above users
RECURSIVE Walk(_, _, _)
Walk(ds, dir, comps) ==
    IF ~IsDir(ds, dir) THEN NoDir
    ELSE IF comps = <<>> THEN dir
    ELSE IF Head(comps) \in { <<>>, <<".">> } THEN Walk(ds, dir, Tail(comps))
    ELSE IF Head(comps) = <<".", ".">>
    THEN IF dir = <<>> THEN Elsewhere ELSE Walk(ds, SubSeq(dir, 1, Len(dir) - 1), Tail(comps))
    ELSE Walk(ds, Append(dir, Head(comps)), Tail(comps))

\* fpath = category_dir(username, category) / f"{normalize_title(title)}.txt" as
\* the file system resolves it: the entry file <<account, category, name>> it
\* is, "nodir" if a directory of the path is missing, "elsewhere" if it lies
\* outside every category directory (a title that starts with "/" is an
\* absolute path).  A name without "/" is a file of the category itself.  The
\* only .txt files under users are entries, so nothing is found elsewhere
EntryPath(ds, u, category, title) ==
    IF ~HasChar(title, "/")
    THEN [kind |-> "entry", key |-> <<u, category, EntryFile(title)>>]
    ELSE LET comps == PathParts(EntryFile(title))
             dir == IF Head(comps) = <<>> THEN Elsewhere
                    ELSE Walk(ds, <<u, <<"d", "a", "t", "a">>, category>>,
                              SubSeq(comps, 1, Len(comps) - 1))
         IN IF dir = NoDir THEN [kind |-> "nodir", key |-> <<>>]
            ELSE IF dir = Elsewhere \/ Len(dir) # 3 THEN [kind |-> "elsewhere", key |-> <<>>]
            ELSE [kind |-> "entry", key |-> <<dir[1], dir[3], comps[Len(comps)]>>]

\* fpath.exists(); the key of a path that is no entry file is no key of fs
EntryExists(fs, ds, u, category, title) ==
    LET path == EntryPath(ds, u, category, title)
    IN path.kind = "entry" /\ path.key \in DOMAIN fs

\* a write that appends to the file instead of replacing it
WrittenFilesAppend(category, title, content, now) ==
    LET key == <<username, category, EntryFile(title)>>
        text == EntryText(category, title, content, FormatTime(now))
    IN [k \in DOMAIN files \cup {key} |->
           IF k # key THEN files[k]
           ELSE IF key \in DOMAIN files THEN files[key] \o text ELSE text]

\* a write that names the file by the title as typed
WrittenFilesRawName(category, title, content, now) ==
    LET key == <<username, category, title \o <<".", "t", "x", "t">> >>
        text == EntryText(category, title, content, FormatTime(now))
    IN [k \in DOMAIN files \cup {key} |-> IF k = key THEN text ELSE files[k]]

\* _write_entry, the branch that writes: fpath.write_text(body)
WrittenFiles(category, title, content, now) ==
    Put(files, EntryPath(dirs, username, category, title).key,
        EntryText(category, title, content, FormatTime(now)))

\* do_categories
do_categories(arg) ==
    /\ pc = "cmd"
    /\ LET parts == Split(arg, -1) IN
       IF parts = <<>> \/ parts[1] = <<"l", "i", "s", "t">>
       THEN /\ out' = Out("categories", <<>>,
                           Sorted({ d[2] : d \in { x \in dirs : x[1] = username } }), {}, None)
            /\ UNCHANGED dirs
       ELSE IF parts[1] = <<"a", "d", "d">> /\ Len(parts) >= 2
       THEN /\ dirs' = dirs \cup { <<username, Strip(parts[2])>> }
            /\ out' = Msg("Category added.")
       ELSE IF parts[1] = <<"d", "e", "l">> /\ Len(parts) >= 2
       THEN LET name == Strip(parts[2]) IN
            IF ~CategoryExists(username, name)
            THEN /\ out' = Msg("Category not found.")
                 /\ UNCHANGED dirs
            ELSE IF ~CategoryEmpty(username, name)
            THEN /\ out' = Msg("Category not empty. Delete files first.")
                 /\ UNCHANGED dirs
            ELSE /\ dirs' = dirs \ { <<username, name>> }
                 /\ out' = Msg("Category deleted.")
       ELSE /\ out' = Msg("Usage: categories [list|add <name>|del <name>]")
            /\ UNCHANGED dirs
    /\ UNCHANGED <<users, files, config, shortcuts, pc, session, attempts, reg, exit_code, clock>>

\* the head of do_save and do_edit: arg.split("|", 1), head.strip().split(maxsplit=1)
HeadParts(arg) == Split(Strip(SubSeq(arg, 1, FirstIndex(arg, "|") - 1)), 1)

\* the content of do_save and do_edit: what follows the first "|"
ContentPart(arg) == SubSeq(arg, FirstIndex(arg, "|") + 1, Len(arg))

\* fpath.write_text raises FileNotFoundError when a directory of the path is
\* not there: no category has a subdirectory, so a "/" in the file name leads
\* nowhere unless ".." leads it into another category directory
WriteRaises(category, title) ==
    HasChar(title, "/") /\ EntryPath(dirs, username, category, title).kind = "nodir"

\* a save that makes the category it does not find
do_saveMakesCategory(arg, now) ==
    /\ pc = "cmd"
    /\ clock <= now
    /\ IF ~HasChar(arg, "|")
       THEN /\ out' = Msg("Usage: save <category> <title>|<content>")
            /\ UNCHANGED <<files, dirs, clock, pc, exit_code>>
       ELSE IF Len(HeadParts(arg)) < 2
       THEN /\ out' = Msg("Usage: save <category> <title>|<content>")
            /\ UNCHANGED <<files, dirs, clock, pc, exit_code>>
       ELSE LET category == HeadParts(arg)[1]
                title == HeadParts(arg)[2]
            IN IF WriteRaises(category, title)
               THEN /\ out' = Msg("Traceback: FileNotFoundError")
                    /\ pc' = "terminated"
                    /\ exit_code' = 1
                    /\ UNCHANGED <<files, dirs, clock>>
               ELSE /\ files' = WrittenFiles(category, title, ContentPart(arg), now)
                    /\ dirs' = dirs \cup { <<username, category>> }
                    /\ clock' = now
                    /\ out' = Out("Saved:", category \o <<"/">> \o EntryFile(title), <<>>, {}, None)
                    /\ UNCHANGED <<pc, exit_code>>
    /\ UNCHANGED <<users, config, shortcuts, session, attempts, reg>>

\* do_save; an exception of _write_entry is caught nowhere (main catches
\* KeyboardInterrupt only) and ends the process with a traceback, status 1
do_save(arg, now) ==
    /\ pc = "cmd"
    /\ clock <= now
    /\ IF ~HasChar(arg, "|")
       THEN /\ out' = Msg("Usage: save <category> <title>|<content>")
            /\ UNCHANGED <<files, clock, pc, exit_code>>
       ELSE LET parts == HeadParts(arg) IN
            IF Len(parts) < 2
            THEN /\ out' = Msg("Usage: save <category> <title>|<content>")
                 /\ UNCHANGED <<files, clock, pc, exit_code>>
            ELSE
            LET category == parts[1]
                title == parts[2]
            IN IF ~CategoryExists(username, category)
               THEN /\ out' = Msg("Category does not exist.")
                    /\ UNCHANGED <<files, clock, pc, exit_code>>
               ELSE IF WriteRaises(category, title)
               THEN /\ out' = Msg("Traceback: FileNotFoundError")
                    /\ pc' = "terminated"
                    /\ exit_code' = 1
                    /\ UNCHANGED <<files, clock>>
               ELSE /\ HasChar(title, "/") => EntryPath(dirs, username, category, title).kind = "entry"
                    /\ files' = WrittenFiles(category, title, ContentPart(arg), now)
                    /\ clock' = now
                    /\ out' = Out("Saved:", category \o <<"/">> \o EntryFile(title), <<>>, {}, None)
                    /\ UNCHANGED <<pc, exit_code>>
    /\ UNCHANGED <<users, dirs, config, shortcuts, session, attempts, reg>>

\* view <category> all: sorted(p.name for p in cdir.glob("*.txt"))
ViewAll(u, category) == Sorted(FilesIn(u, category))

\* what do_view prints for the argument, for user u over the entry files fs and
\* the category directories ds
ViewOut(fs, ds, u, arg) ==
    LET parts == Split(arg, 2) IN
    IF Len(parts) < 2
    THEN Msg("Usage: view <category> <title|all>")
    ELSE LET category == parts[1]
             rest == Join(<<" ">>, Tail(parts))
             key == EntryPath(ds, u, category, rest).key
         IN IF <<u, category>> \notin ds
            THEN Msg("Category not found.")
            ELSE IF Lower(rest) = <<"a", "l", "l">>
            THEN IF EntryNames(fs, u, category) = {}
                 THEN Msg("(no entries)")
                 ELSE Out("entries", <<>>, Sorted(EntryNames(fs, u, category)), {}, None)
            ELSE IF key \notin DOMAIN fs
            THEN Msg("Entry not found.")
            ELSE Out("entry", fs[key], <<>>, {}, None)

\* do_view
do_view(arg) ==
    /\ pc = "cmd"
    /\ out' = ViewOut(files, dirs, username, arg)
    /\ UNCHANGED <<disk, pc, session, attempts, reg, exit_code, clock>>

\* do_delete
do_delete(arg) ==
    /\ pc = "cmd"
    /\ LET parts == Split(arg, 2) IN
       IF Len(parts) < 2
       THEN /\ out' = Msg("Usage: delete <category> <title>")
            /\ UNCHANGED files
       ELSE LET category == parts[1]
                title == Join(<<" ">>, Tail(parts))
                key == EntryPath(dirs, username, category, title).key
            IN IF key \in DOMAIN files
               THEN /\ files' = Del(files, key)
                    /\ out' = Out("Deleted", category \o <<"/">> \o EntryFile(title), <<>>, {}, None)
               ELSE /\ out' = Msg("Entry not found.")
                    /\ UNCHANGED files
    /\ UNCHANGED <<users, dirs, config, shortcuts, pc, session, attempts, reg, exit_code, clock>>

\* an edit that writes without looking for the entry
do_editCreates(arg, now) ==
    /\ pc = "cmd"
    /\ clock <= now
    /\ IF ~HasChar(arg, "|")
       THEN /\ out' = Msg("Usage: edit <category> <title>|<new_content>")
            /\ UNCHANGED <<files, clock>>
       ELSE IF Len(HeadParts(arg)) < 2
       THEN /\ out' = Msg("Usage: edit <category> <title>|<new_content>")
            /\ UNCHANGED <<files, clock>>
       ELSE /\ files' = WrittenFiles(HeadParts(arg)[1], HeadParts(arg)[2], ContentPart(arg), now)
            /\ clock' = now
            /\ out' = Msg("Entry updated.")
    /\ UNCHANGED <<users, dirs, config, shortcuts, pc, session, attempts, reg, exit_code>>

\* do_edit
do_edit(arg, now) ==
    /\ pc = "cmd"
    /\ clock <= now
    /\ IF ~HasChar(arg, "|")
       THEN /\ out' = Msg("Usage: edit <category> <title>|<new_content>")
            /\ UNCHANGED <<files, clock>>
       ELSE LET parts == HeadParts(arg) IN
            IF Len(parts) < 2
            THEN /\ out' = Msg("Usage: edit <category> <title>|<new_content>")
                 /\ UNCHANGED <<files, clock>>
            ELSE
            LET category == parts[1]
                title == parts[2]
            IN IF ~EntryExists(files, dirs, username, category, title)
               THEN /\ out' = Msg("Entry not found.")
                    /\ UNCHANGED <<files, clock>>
               ELSE /\ out' = Msg("Entry updated.")
                    /\ clock' = now
                    /\ files' = WrittenFiles(category, title, ContentPart(arg), now)
    /\ UNCHANGED <<users, dirs, config, shortcuts, pc, session, attempts, reg, exit_code>>

\* a scan that compares the text as it is stored
SearchHitsCaseSensitive(fs, u, category, keyword) ==
    { k[3] : k \in { f \in DOMAIN fs :
                        /\ f[1] = u /\ f[2] = category
                        /\ Contains(fs[f], Lower(keyword)) } }

\* the entries of the category whose lower-cased text holds the lower-cased
\* keyword; f.read_text never fails on a file this program wrote
SearchHits(fs, u, category, keyword) ==
    { k[3] : k \in { f \in DOMAIN fs :
                        /\ f[1] = u /\ f[2] = category
                        /\ Contains(Lower(fs[f]), Lower(keyword)) } }

\* what do_search prints for the argument; the matches come in the order of
\* the directory, which is no part of the result
SearchOut(fs, ds, u, arg) ==
    LET parts == Split(Strip(arg), 1) IN
    IF Len(parts) < 2
    THEN Msg("Usage: search <category> <keyword>")
    ELSE IF <<u, parts[1]>> \notin ds
    THEN Msg("Category not found.")
    ELSE IF SearchHits(fs, u, parts[1], parts[2]) = {}
    THEN Msg("(no matches)")
    ELSE Out("Matches:", <<>>, <<>>, SearchHits(fs, u, parts[1], parts[2]), None)

\* do_search
do_search(arg) ==
    /\ pc = "cmd"
    /\ out' = SearchOut(files, dirs, username, arg)
    /\ UNCHANGED <<disk, pc, session, attempts, reg, exit_code, clock>>

(***************************************************************************)
(* Look and feel, web aliases                                              *)
(***************************************************************************)
\* ("dark", "light", "hacker")
THEMES == { <<"d", "a", "r", "k">>, <<"l", "i", "g", "h", "t">>, <<"h", "a", "c", "k", "e", "r">> }

\* arguments typed after theme, prompt and banner
ThemeArgs == { <<"l", "i", "g", "h", "t">>, <<" ", "D", "A", "R", "K">>, <<"h", "a", "c", "k", "e", "r">>, <<"b", "l", "u", "e">> }

PromptArgs == { <<>>, <<" ", "h", "i", " ">> }

BannerArgs == { <<"o", "f", "f">>, <<"O", "N">>, <<"x">> }

\* _save_user_config: the three preferences of the session, written together
SavedConfig(th, pr, ba) == Put(config, username, [theme |-> th, prompt |-> pr, banner |-> ba])

\* a theme command that takes any word
do_themeAny(arg) ==
    /\ pc = "cmd"
    /\ theme' = Lower(Strip(arg))
    /\ config' = SavedConfig(Lower(Strip(arg)), custom_prompt, banner_on)
    /\ out' = Msg("Theme set.")
    /\ UNCHANGED <<users, dirs, files, shortcuts, pc, username, authenticated, pin_hash,
                   custom_prompt, banner_on, attempts, reg, exit_code, clock>>

\* do_theme
do_theme(arg) ==
    /\ pc = "cmd"
    /\ LET choice == Lower(Strip(arg)) IN
       IF choice \notin THEMES
       THEN /\ out' = Msg("Themes: dark, light, hacker")
            /\ UNCHANGED <<theme, config>>
       ELSE /\ theme' = choice
            /\ config' = SavedConfig(choice, custom_prompt, banner_on)
            /\ out' = Msg("Theme set.")
    /\ UNCHANGED <<users, dirs, files, shortcuts, pc, username, authenticated, pin_hash,
                   custom_prompt, banner_on, attempts, reg, exit_code, clock>>

\* do_prompt
do_prompt(arg) ==
    /\ pc = "cmd"
    /\ LET text == Strip(arg) IN
       IF text = <<>>
       THEN /\ out' = Msg("Usage: prompt <text>")
            /\ UNCHANGED <<custom_prompt, config>>
       ELSE /\ custom_prompt' = text
            /\ config' = SavedConfig(theme, text, banner_on)
            /\ out' = Msg("Prompt updated.")
    /\ UNCHANGED <<users, dirs, files, shortcuts, pc, username, authenticated, pin_hash,
                   theme, banner_on, attempts, reg, exit_code, clock>>

\* a banner command that does not save the preferences
do_bannerUnsaved(arg) ==
    /\ pc = "cmd"
    /\ LET val == Lower(Strip(arg)) IN
       IF val \notin { <<"o", "n">>, <<"o", "f", "f">> }
       THEN /\ out' = Msg("Usage: banner [on|off]")
            /\ UNCHANGED <<banner_on, config>>
       ELSE /\ banner_on' = (val = <<"o", "n">>)
            /\ out' = Msg("Banner set.")
            /\ UNCHANGED config
    /\ UNCHANGED <<users, dirs, files, shortcuts, pc, username, authenticated, pin_hash,
                   theme, custom_prompt, attempts, reg, exit_code, clock>>

\* do_banner
do_banner(arg) ==
    /\ pc = "cmd"
    /\ LET val == Lower(Strip(arg)) IN
       IF val \notin { <<"o", "n">>, <<"o", "f", "f">> }
       THEN /\ out' = Msg("Usage: banner [on|off]")
            /\ UNCHANGED <<banner_on, config>>
       ELSE /\ banner_on' = (val = <<"o", "n">>)
            /\ config' = SavedConfig(theme, custom_prompt, val = <<"o", "n">>)
            /\ out' = Msg("Banner set.")
    /\ UNCHANGED <<users, dirs, files, shortcuts, pc, username, authenticated, pin_hash,
                   theme, custom_prompt, attempts, reg, exit_code, clock>>

\* arguments typed after webadd, webdel and web
WebaddArgs == { <<"a", " ", "b", " ", "c">>, <<"a">> }

WebdelArgs == { <<"a">>, <<"z", "z">>, <<>> }

WebArgs == { <<"a">>, <<"g", "g">>, <<>> }

\* safe_json_load(web_shortcuts_path(self.username), {})
LoadShortcuts(u) == IF u \in DOMAIN shortcuts THEN shortcuts[u] ELSE EmptyMap

\* s.startswith(prefix)
StartsWith(s, prefix) == Len(s) >= Len(prefix) /\ SubSeq(s, 1, Len(prefix)) = prefix

\* do_web: the browser is opened, nothing is stored
do_web(arg) ==
    /\ pc = "cmd"
    /\ LET target == Strip(arg)
           aliases == LoadShortcuts(username)
           url == IF target \in DOMAIN aliases THEN aliases[target] ELSE target
       IN IF target = <<>>
          THEN out' = Msg("Usage: web <url|alias>")
          ELSE out' = Out("Opening", IF StartsWith(url, <<"h", "t", "t", "p", ":", "/", "/">>) \/ StartsWith(url, <<"h", "t", "t", "p", "s", ":", "/", "/">>)
                                     THEN url ELSE <<"h", "t", "t", "p", ":", "/", "/">> \o url, <<>>, {}, None)
    /\ UNCHANGED <<disk, pc, session, attempts, reg, exit_code, clock>>

\* do_webadd
do_webadd(arg) ==
    /\ pc = "cmd"
    /\ LET parts == Split(arg, -1) IN
       IF Len(parts) < 2
       THEN /\ out' = Msg("Usage: webadd <alias> <url>")
            /\ UNCHANGED shortcuts
       ELSE /\ shortcuts' = Put(shortcuts, username,
                                Put(LoadShortcuts(username), parts[1], Join(<<" ">>, Tail(parts))))
            /\ out' = Msg("Alias saved.")
    /\ UNCHANGED <<users, dirs, files, config, pc, session, attempts, reg, exit_code, clock>>

\* do_weblist: the aliases in the order of the file, which the model leaves out
do_weblist ==
    /\ pc = "cmd"
    /\ LET aliases == LoadShortcuts(username) IN
       IF DOMAIN aliases = {}
       THEN out' = Msg("(no aliases)")
       ELSE out' = Out("aliases", <<>>, <<>>, { <<k, aliases[k]>> : k \in DOMAIN aliases }, None)
    /\ UNCHANGED <<disk, pc, session, attempts, reg, exit_code, clock>>

\* do_webdel
do_webdel(arg) ==
    /\ pc = "cmd"
    /\ LET alias == Strip(arg)
           aliases == LoadShortcuts(username)
       IN IF alias = <<>>
          THEN /\ out' = Msg("Usage: webdel <alias>")
               /\ UNCHANGED shortcuts
          ELSE IF alias \in DOMAIN aliases
          THEN /\ shortcuts' = Put(shortcuts, username, Del(aliases, alias))
               /\ out' = Msg("Alias deleted.")
          ELSE /\ out' = Msg("Alias not found.")
               /\ UNCHANGED shortcuts
    /\ UNCHANGED <<users, dirs, files, config, pc, session, attempts, reg, exit_code, clock>>

(***************************************************************************)
(* Safe calculator                                                         *)
(* ast.parse is the library's: the model starts from the tree it returns   *)
(* (Python 3.8 to 3.13: every literal is an ast.Constant and the keywords   *)
(* True and False are literals whose value is a bool, a subclass of int).  *)
(* A number is a fraction n/d, d > 0, in lowest terms; the binary rounding *)
(* of floats is left out.                                                  *)
(***************************************************************************)
\* the keys of SAFE_OPS
SAFE_OPS == {"Add", "Sub", "Mult", "Div", "FloorDiv", "Mod", "Pow", "USub", "UAdd", "BitXor",
             "LShift", "RShift", "BitAnd", "BitOr"}

\* the nodes of a tree
Constant(type, n, d) == [node |-> "Constant", type |-> type, n |-> n, d |-> d]

BinOp(op, left, right) == [node |-> "BinOp", op |-> op, left |-> left, right |-> right]

UnaryOp(op, operand) == [node |-> "UnaryOp", op |-> op, operand |-> operand]

Name == [node |-> "Name"]

Call == [node |-> "Call"]

Compare(left, right) == [node |-> "Compare", left |-> left, right |-> right]

\* raise: the exception, as the value of the evaluation
Raise(e) == [kind |-> "error", err |-> e]

Abs(i) == IF i < 0 THEN 0 - i ELSE i

RECURSIVE GCD(_, _)
GCD(a, b) == IF b = 0 THEN a ELSE GCD(b, a % b)

\* the number n/d of the kind (int, float, bool), d # 0
Num(kind, n, d) ==
    LET g == GCD(Abs(n), Abs(d))
        sign == IF d < 0 THEN 0 - 1 ELSE 1
    IN [kind |-> kind, n |-> sign * (n \div g), d |-> sign * (d \div g)]

\* math.floor(n/d), d # 0
Floor(n, d) == IF d < 0 THEN (0 - n) \div (0 - d) ELSE n \div d

\* a & b, a | b, a ^ b on Python's integers (two's complement without end)
RECURSIVE and_(_, _)
and_(a, b) ==
    IF a = 0 \/ b = 0 THEN 0
    ELSE IF a = 0 - 1 THEN b
    ELSE IF b = 0 - 1 THEN a
    ELSE (a % 2) * (b % 2) + 2 * and_(a \div 2, b \div 2)

or_(a, b) == a + b - and_(a, b)

xor(a, b) == a + b - 2 * and_(a, b)

\* SAFE_OPS[type(node.op)](left, right) for two numbers; a power is modelled for
\* whole exponents
BinValue(op, l, r) ==
    LET fl == l.kind = "float" \/ r.kind = "float"
        k == IF fl THEN "float" ELSE "int"
        kb == IF l.kind = "bool" /\ r.kind = "bool" THEN "bool" ELSE "int"
        q == Floor(l.n * r.d, l.d * r.n)
    IN CASE op = "Add" -> Num(k, l.n * r.d + r.n * l.d, l.d * r.d)
         [] op = "Sub" -> Num(k, l.n * r.d - r.n * l.d, l.d * r.d)
         [] op = "Mult" -> Num(k, l.n * r.n, l.d * r.d)
         [] op = "Div" -> IF r.n = 0 THEN Raise("ZeroDivisionError")
                          ELSE Num("float", l.n * r.d, l.d * r.n)
         [] op = "FloorDiv" -> IF r.n = 0 THEN Raise("ZeroDivisionError") ELSE Num(k, q, 1)
         [] op = "Mod" -> IF r.n = 0 THEN Raise("ZeroDivisionError")
                          ELSE Num(k, l.n * r.d - q * r.n * l.d, l.d * r.d)
         [] op = "Pow" /\ r.d = 1 ->
               IF r.n >= 0 THEN Num(k, l.n ^ r.n, l.d ^ r.n)
               ELSE IF l.n = 0 THEN Raise("ZeroDivisionError")
               ELSE Num("float", l.d ^ (0 - r.n), l.n ^ (0 - r.n))
         [] op = "BitAnd" -> IF fl THEN Raise("TypeError") ELSE Num(kb, and_(l.n, r.n), 1)
         [] op = "BitOr" -> IF fl THEN Raise("TypeError") ELSE Num(kb, or_(l.n, r.n), 1)
         [] op = "BitXor" -> IF fl THEN Raise("TypeError") ELSE Num(kb, xor(l.n, r.n), 1)
         [] op = "LShift" -> IF fl THEN Raise("TypeError")
                             ELSE IF r.n < 0 THEN Raise("ValueError")
                             ELSE Num("int", l.n * 2 ^ r.n, 1)
         [] op = "RShift" -> IF fl THEN Raise("TypeError")
                             ELSE IF r.n < 0 THEN Raise("ValueError")
                             ELSE Num("int", l.n \div 2 ^ r.n, 1)

\* SAFE_OPS[type(node.op)](operand): op.neg and op.pos turn a bool into an int
UnaryValue(op, x) ==
    LET k == IF x.kind = "float" THEN "float" ELSE "int" IN
    IF op = "USub" THEN Num(k, 0 - x.n, x.d) ELSE Num(k, x.n, x.d)

\* _eval of safe_eval_expr: isinstance(node, ast.Num) holds of a constant that
\* is an int, a float or a complex number (n/d times j here), and
\* isinstance(node.value, (int, float)) holds of a bool
RECURSIVE _eval(_)
_eval(node) ==
    IF node.node = "Constant" /\ node.type \in {"int", "float", "complex"}
    THEN Num(node.type, node.n, node.d)
    ELSE IF node.node = "Constant"
    THEN IF node.type \in {"int", "float", "bool"} THEN Num(node.type, node.n, node.d)
         ELSE Raise("Only numbers allowed.")
    ELSE IF node.node = "BinOp" /\ node.op \in SAFE_OPS
    THEN LET l == _eval(node.left) IN
         IF l.kind = "error" THEN l
         ELSE LET r == _eval(node.right) IN
              IF r.kind = "error" THEN r ELSE BinValue(node.op, l, r)
    ELSE IF node.node = "UnaryOp" /\ node.op \in SAFE_OPS
    THEN LET x == _eval(node.operand) IN
         IF x.kind = "error" THEN x ELSE UnaryValue(node.op, x)
    ELSE Raise("Unsupported expression.")

\* what calc is given: nothing, text that ast.parse refuses, or a tree
NoExpr == [node |-> "empty"]

SyntaxError == [node |-> "SyntaxError"]

\* do_calc: every exception of the parse and of the evaluation is caught
do_calc(expr) ==
    /\ pc = "cmd"
    /\ IF expr = NoExpr
       THEN out' = Msg("Usage: calc <expression>")
       ELSE IF expr = SyntaxError
       THEN out' = Out("Error:", <<>>, <<>>, {}, Raise("SyntaxError"))
       ELSE LET result == _eval(expr) IN
            IF result.kind = "error"
            THEN out' = Out("Error:", <<>>, <<>>, {}, result)
            ELSE out' = Out("result", <<>>, <<>>, {}, result)
    /\ UNCHANGED <<disk, pc, session, attempts, reg, exit_code, clock>>

(***************************************************************************)
(* The account and session life cycle                                      *)
(***************************************************************************)
\* the one entry saved while the accounts and the lock are exercised
AuthSaveArgs == { SaveArg(Notes, MyTitle, <<"b", "o", "d", "y">>) }

NextAuth ==
    \/ preloop
    \/ \E l \in ChoiceLines : login_or_register(l)
    \/ \E l \in UsernameLines : register_username(l)
    \/ \E l, c \in PasswordLines : register_password(l, c)
    \/ \E l \in YesNoLines : register_setpin(l)
    \/ \E l \in RegisterPinLines : register_pin(l)
    \/ \E u \in UsernameLines, p \in PasswordLines : login_user(u, p)
    \/ do_lock
    \/ \E l \in PinLines : lock_pin(l)
    \/ \E l \in PinLines : do_setpin(l)
    \/ \E l, c \in PinLines : setpin_new(l, c)
    \/ \E l \in PinLines : do_clearpin(l)
    \/ \E a \in AuthSaveArgs : do_save(a, clock)
    \/ do_exit
    \/ KeyboardInterrupt
    \/ main

SpecAuth == Init /\ [][NextAuth]_vars

(***************************************************************************)
(* Categories and entries of the accounts                                  *)
(***************************************************************************)
\* the lines typed at the account prompts while the entries are exercised
DataUsernameLines == { <<"a", "l">> }

DataPasswordLines == { <<"p">> }

DataYesNoLines == { <<"n">> }

NextData ==
    \/ preloop
    \/ \E l \in ChoiceLines : login_or_register(l)
    \/ \E l \in DataUsernameLines : register_username(l)
    \/ \E l, c \in DataPasswordLines : register_password(l, c)
    \/ \E l \in DataYesNoLines : register_setpin(l)
    \/ \E u \in DataUsernameLines, p \in DataPasswordLines : login_user(u, p)
    \/ \E a \in CategoriesArgs : do_categories(a)
    \/ \E a \in SaveArgs, now \in 0..MaxClock : do_save(a, now)
    \/ \E a \in ViewArgs : do_view(a)
    \/ \E a \in ViewArgs : do_delete(a)
    \/ \E a \in SaveArgs, now \in 0..MaxClock : do_edit(a, now)
    \/ do_exit
    \/ main

SpecData == Init /\ [][NextData]_vars

(***************************************************************************)
(* Search over the entries                                                 *)
(***************************************************************************)
\* arguments typed after search, one of them malformed
SearchArgs ==
    { <<"n", "o", "t", "e", "s", " ", "h", "i">>, <<"n", "o", "t", "e", "s", " ", "T", "I", "T", "L", "E">>, <<"w", " ", "a", "l", "l">>, <<"n", "o", "t", "e", "s", " ", "s", "a", "v", "e", "d", " ", "o", "n", ":">>, <<" ", "n", "o", "t", "e", "s", " ", " ", "M", "y", " ", " ", "t", "i", "t", "l", "e", " ">>, Notes }

\* the entries searched: two of a default category, one of the operator's own
SearchSaveArgs ==
    { SaveArg(Notes, MyTitle, <<"b", "o", "d", "y">>),
      SaveArg(Notes, <<"A", "l", "l">>, <<"H", "i">>),
      SaveArg(<<"w">>, <<"A", "l", "l">>, <<"H", "i">>) }

NextSearch ==
    \/ preloop
    \/ \E l \in ChoiceLines : login_or_register(l)
    \/ \E l \in DataUsernameLines : register_username(l)
    \/ \E l, c \in DataPasswordLines : register_password(l, c)
    \/ \E l \in DataYesNoLines : register_setpin(l)
    \/ \E u \in DataUsernameLines, p \in DataPasswordLines : login_user(u, p)
    \/ \E a \in CategoriesArgs : do_categories(a)
    \/ \E a \in SearchSaveArgs, now \in 0..MaxClock : do_save(a, now)
    \/ \E a \in ViewArgs : do_delete(a)
    \/ \E a \in SearchArgs : do_search(a)
    \/ do_exit
    \/ main

SpecSearch == Init /\ [][NextSearch]_vars

(***************************************************************************)
(* The calculator in a session                                             *)
(***************************************************************************)
\* the trees of the expressions typed after calc:
\* (2+3)*4, 7/2, 1/0, 2^3, 1<<3, -7%2, 2**-1, 1.5&1, -(1), ~1, 1@2,
\* __import__('os'), x, 1+x, 'a', 1<2, True, True+1, 1j
CalcTrees ==
    { BinOp("Mult", BinOp("Add", Constant("int", 2, 1), Constant("int", 3, 1)), Constant("int", 4, 1)),
      BinOp("Div", Constant("int", 7, 1), Constant("int", 2, 1)),
      BinOp("Div", Constant("int", 1, 1), Constant("int", 0, 1)),
      BinOp("BitXor", Constant("int", 2, 1), Constant("int", 3, 1)),
      BinOp("LShift", Constant("int", 1, 1), Constant("int", 3, 1)),
      BinOp("Mod", UnaryOp("USub", Constant("int", 7, 1)), Constant("int", 2, 1)),
      BinOp("Pow", Constant("int", 2, 1), UnaryOp("USub", Constant("int", 1, 1))),
      BinOp("BitAnd", Constant("float", 3, 2), Constant("int", 1, 1)),
      UnaryOp("USub", Constant("int", 1, 1)),
      UnaryOp("Invert", Constant("int", 1, 1)),
      BinOp("MatMult", Constant("int", 1, 1), Constant("int", 2, 1)),
      Call,
      Name,
      BinOp("Add", Constant("int", 1, 1), Name),
      Constant("str", 0, 1),
      Compare(Constant("int", 1, 1), Constant("int", 2, 1)),
      Constant("bool", 1, 1),
      BinOp("Add", Constant("bool", 1, 1), Constant("int", 1, 1)),
      Constant("complex", 1, 1) }

CalcExprs == CalcTrees \cup {NoExpr, SyntaxError}

NextCalc ==
    \/ preloop
    \/ \E l \in ChoiceLines : login_or_register(l)
    \/ \E l \in DataUsernameLines : register_username(l)
    \/ \E l, c \in DataPasswordLines : register_password(l, c)
    \/ \E l \in DataYesNoLines : register_setpin(l)
    \/ \E u \in DataUsernameLines, p \in DataPasswordLines : login_user(u, p)
    \/ \E e \in CalcExprs : do_calc(e)
    \/ \E a \in ThemeArgs : do_theme(a)
    \/ \E a \in BannerArgs : do_banner(a)
    \/ do_exit
    \/ main

SpecCalc == Init /\ [][NextCalc]_vars

(***************************************************************************)
(* A session of one account with every command                             *)
(***************************************************************************)
\* lines typed at the PIN prompts: a PIN, four superscript twos, too short a PIN
SessionPinLines == { <<"1", "2", "3", "4">>, <<"sup2", "sup2", "sup2", "sup2">>, <<"1", "2">> }

\* save and edit: an entry, an entry of a category that may be absent, a title
\* with a slash, no content
SessionSaveArgs ==
    { SaveArg(Notes, MyTitle, <<"b", "o", "d", "y">>),
      SaveArg(<<"w">>, <<"A", "l", "l">>, <<"H", "i">>),
      SaveArg(Notes, <<"a", "/", "b">>, <<"H", "i">>),
      <<"n", "o", "t", "e", "s", " ", "A", "l", "l">> }

\* categories: the list, the removal of a default category and of an absent one,
\* no name
SessionCategoriesArgs == { <<>>, <<"d", "e", "l", " ", "n", "o", "t", "e", "s">>, <<"d", "e", "l", " ", "w">>, <<"d", "e", "l">> }

SessionViewArgs == { ViewArg(Notes, MyTitle), ViewArg(<<"w">>, MyTitle), Notes }

SessionSearchArgs == { <<"n", "o", "t", "e", "s", " ", "h", "i">>, <<"w", " ", "a", "l", "l">> }

SessionThemeArgs == { <<"h", "a", "c", "k", "e", "r">>, <<"b", "l", "u", "e">> }

SessionCalcExprs ==
    { NoExpr, Name, BinOp("Div", Constant("int", 1, 1), Constant("int", 0, 1)),
      BinOp("Div", Constant("int", 7, 1), Constant("int", 2, 1)) }

NextSession ==
    \/ preloop
    \/ \E l \in ChoiceLines : login_or_register(l)
    \/ \E l \in DataUsernameLines : register_username(l)
    \/ \E l, c \in DataPasswordLines : register_password(l, c)
    \/ \E l \in YesNoLines : register_setpin(l)
    \/ \E l \in RegisterPinLines : register_pin(l)
    \/ \E u \in DataUsernameLines, p \in DataPasswordLines : login_user(u, p)
    \/ do_lock
    \/ \E l \in SessionPinLines : lock_pin(l)
    \/ \E l \in SessionPinLines : do_setpin(l)
    \/ \E l, c \in SessionPinLines : setpin_new(l, c)
    \/ \E l \in SessionPinLines : do_clearpin(l)
    \/ \E a \in SessionThemeArgs : do_theme(a)
    \/ \E a \in PromptArgs : do_prompt(a)
    \/ \E a \in BannerArgs : do_banner(a)
    \/ \E a \in WebArgs : do_web(a)
    \/ \E a \in WebaddArgs : do_webadd(a)
    \/ do_weblist
    \/ \E a \in WebdelArgs : do_webdel(a)
    \/ \E e \in SessionCalcExprs : do_calc(e)
    \/ \E a \in SessionCategoriesArgs : do_categories(a)
    \/ \E a \in SessionSaveArgs : do_save(a, clock)
    \/ \E a \in SessionSaveArgs : do_edit(a, clock)
    \/ \E a \in SessionViewArgs : do_view(a)
    \/ \E a \in SessionViewArgs : do_delete(a)
    \/ \E a \in SessionSearchArgs : do_search(a)
    \/ do_exit
    \/ KeyboardInterrupt
    \/ main

SpecSession == Init /\ [][NextSession]_vars

(***************************************************************************)
(* Two accounts with entries                                               *)
(***************************************************************************)
FrameUsernameLines == { <<"a", "l">>, <<"b", "o">> }

Contacts == <<"c", "o", "n", "t", "a", "c", "t", "s">>

\* titles typed: a plain one, one that names a file of another category and
\* one that names a file of the other account
FrameTitles ==
    { <<"x">>,
      <<".", ".", "/", "c", "o", "n", "t", "a", "c", "t", "s", "/", "x">>,
      <<".", ".", "/", ".", ".", "/", ".", ".", "/", "b", "o", "/", "d", "a", "t", "a", "/", "n", "o", "t", "e", "s", "/", "x">> }

FrameContents == { <<"H", "i">>, <<"Y", "o">> }

\* the arguments of save and edit, and of delete
FrameSaveArgs ==
    { SaveArg(Notes, t, x) : t \in FrameTitles, x \in FrameContents }
    \cup { SaveArg(Contacts, <<"x">>, <<"H", "i">>) }

FrameViewArgs == { ViewArg(Notes, t) : t \in FrameTitles }

NextFrame ==
    \/ preloop
    \/ \E l \in ChoiceLines : login_or_register(l)
    \/ \E l \in FrameUsernameLines : register_username(l)
    \/ \E l, c \in DataPasswordLines : register_password(l, c)
    \/ \E l \in DataYesNoLines : register_setpin(l)
    \/ \E u \in FrameUsernameLines, p \in DataPasswordLines : login_user(u, p)
    \/ \E a \in FrameSaveArgs : do_save(a, clock)
    \/ \E a \in FrameSaveArgs : do_edit(a, clock)
    \/ \E a \in FrameViewArgs : do_view(a)
    \/ \E a \in FrameViewArgs : do_delete(a)
    \/ do_exit
    \/ main

SpecFrame == Init /\ [][NextFrame]_vars

Next == NextAuth \/ NextData \/ NextSearch \/ NextCalc \/ NextSession \/ NextFrame

Spec == Init /\ [][Next]_vars

(***************************************************************************)
(* Properties of the login flow and of the PIN lock, under SpecAuth        *)
(***************************************************************************)
\* C1: the login loop ends the process with status 1 on the fifth failed
\* attempt in a row and on no earlier one, never prompts for a sixth, and a
\* matching username and password on any attempt logs the session in
C1_LoginLimit ==
    [][ /\ (exit_code' = 1 /\ exit_code # 1) =>
              (pc = "login" /\ attempts = 4 /\ attempts' = 5 /\ pc' = "terminated"
                 /\ ~authenticated')
        /\ pc' = "login" => attempts' < 5
        /\ \A u \in UsernameLines, p \in PasswordLines :
              login_user(u, p) =>
                 IF Strip(u) \in DOMAIN users /\ users[Strip(u)].password_hash = shash(Strip(p))
                 THEN pc' = "cmd" /\ authenticated' /\ username' = Strip(u) /\ exit_code' = -1
                 ELSE /\ attempts' = attempts + 1
                      /\ ~authenticated'
                      /\ IF attempts' = 5
                         THEN pc' = "terminated" /\ exit_code' = 1
                         ELSE pc' = "login" /\ exit_code' = -1
      ]_vars

\* C1 witness: the process has ended on the fifth failed attempt
C1_Witness == pc = "terminated" /\ exit_code = 1 /\ attempts = 5

\* the accounts us hold an account n whose stored hash is the hash of pw
Accepts(us, n, pw) == n \in DOMAIN us /\ us[n].password_hash = shash(pw)

\* C2: the credentials are the lines typed, trimmed as the prompts trim them.
\* An account registered with a username and a password has both non-empty and
\* accepts exactly that password; its password hash never changes afterwards,
\* in this run or a later one; a login with the username and the password of
\* an account authenticates that account, and a login with any other password
\* or with an unknown username reports invalid credentials and leaves the
\* session unauthenticated
C2_RegisterThenAuthenticate ==
    [][ /\ \A n \in {reg.username}, w \in {reg.pw}, us \in {users'} :
              (pc \in {"reg_setpin", "reg_pin"} /\ pc' = "cmd") =>
                 /\ n # <<>> /\ w # <<>>
                 /\ authenticated' /\ username' = n
                 /\ \A p \in PasswordLines : Accepts(us, n, Strip(p)) <=> (Strip(p) = w)
        /\ \A n \in DOMAIN users, p \in PasswordLines, us \in {users'} :
              /\ n \in DOMAIN us
              /\ Accepts(us, n, Strip(p)) <=> Accepts(users, n, Strip(p))
        /\ \A u \in UsernameLines, p \in PasswordLines :
              login_user(u, p) =>
                 IF Accepts(users, Strip(u), Strip(p))
                 THEN authenticated' /\ username' = Strip(u) /\ pc' = "cmd"
                 ELSE /\ ~authenticated' /\ username' = None
                      /\ out'.msg \in {"Invalid credentials.", "Too many failed attempts. Exiting."}
      ]_vars

\* C2 witness: a later run has logged in, after a failed attempt
C2_Witness == authenticated /\ out.msg = "Login successful." /\ attempts >= 1

\* C3: every step taken while the terminal is locked leaves the disk and the
\* session as they are, and a line typed at the PIN prompt, command or not,
\* only unlocks (the PIN) or keeps the terminal locked (anything else)
C3_LockedRunsNoCommand ==
    [][ /\ pc = "locked" => (disk' = disk /\ session' = session /\ clock' = clock)
        /\ \A l \in PinLines :
              lock_pin(l) =>
                 /\ exit_code' = -1
                 /\ pc' = IF shash(Strip(l)) = pin_hash THEN "cmd" ELSE "locked"
                 /\ out'.msg = IF shash(Strip(l)) = pin_hash THEN "Unlocked." ELSE "Wrong PIN."
      ]_vars

\* C3 witness: a line was refused as a PIN and the terminal is still locked,
\* with an entry on disk
C3_Witness == pc = "locked" /\ out.msg = "Wrong PIN." /\ DOMAIN files # {}

\* C4: setpin stores the PIN typed (and no other), lock with a PIN locks, and
\* at the lock prompt the PIN unlocks while any other line keeps the terminal
\* locked and running and changes nothing on disk or in the session
C4_PinFlow ==
    [][ /\ \A l, c \in PinLines :
              (setpin_new(l, c) /\ pc' = "cmd") =>
                 \A q \in PinLines : (shash(Strip(q)) = pin_hash)' <=> (Strip(q) = Strip(l))
        /\ (do_lock /\ pin_hash # None) => (pc' = "locked" /\ pin_hash' = pin_hash)
        /\ \A l \in PinLines :
              lock_pin(l) =>
                 IF shash(Strip(l)) = pin_hash
                 THEN pc' = "cmd" /\ out'.msg = "Unlocked."
                 ELSE /\ pc' = "locked" /\ exit_code' = -1
                      /\ disk' = disk /\ session' = session /\ attempts' = attempts
      ]_vars

\* C4 witness: the terminal was unlocked with a PIN that only setpin can set
C4_Witness == pc = "cmd" /\ out.msg = "Unlocked." /\ pin_hash = shash(<<"0", "0", "0", "0">>)

\* C5: lock without a PIN hash reports it, stays at the command prompt and
\* changes nothing; the locked state is entered only from the command prompt of
\* an authenticated session whose account has a PIN hash
C5_LockNeedsPin ==
    [][ /\ (do_lock /\ pin_hash = None) =>
              /\ pc' = "cmd" /\ disk' = disk /\ session' = session
              /\ out'.msg = "No PIN set. Use 'setpin' to create one."
        /\ (pc' = "locked" /\ pc # "locked") =>
              /\ pc = "cmd" /\ authenticated
              /\ pin_hash # None /\ users[username].pin_hash # None
      ]_vars

\* C5 witness: lock was refused for an account without a PIN
C5_Witness ==
    /\ pc = "cmd" /\ out.msg = "No PIN set. Use 'setpin' to create one."
    /\ users[username].pin_hash = None

(***************************************************************************)
(* Properties of the categories and entries, under SpecData                *)
(***************************************************************************)
\* the step is a save of (category, title, content) at time now that wrote
Saved(category, title, content, now) ==
    /\ clock' = now
    /\ out'.msg = "Saved:"
    /\ \E a \in { SaveArg(category, title, content) } : do_save(a, now)

\* what view prints for (category, title) after the step
ViewedNext(category, title) ==
    CHOOSE v \in { ViewOut(fs, ds, u, a) :
                     fs \in {files'}, ds \in {dirs'}, u \in {username'},
                     a \in {ViewArg(category, title)} } : TRUE

\* what view prints for (category, title) before the step
Viewed(category, title) ==
    CHOOSE v \in { ViewOut(files, dirs, username, a) : a \in {ViewArg(category, title)} } : TRUE

\* the text is the content followed by a footer with the time and the title
IsEntryOf(text, title, content, now) ==
    \A stamp \in { <<"S", "a", "v", "e", "d", " ", "o", "n", ":", " ">> \o FormatTime(now) \o <<"\n">> },
       name \in { <<"\n", "T", "i", "t", "l", "e", ":", " ">> \o title \o <<"\n">> } :
        /\ Len(text) > Len(content)
        /\ SubSeq(text, 1, Len(content)) = content
        /\ Contains(text, stamp)
        /\ Contains(text, name)

\* C6: a category directory disappears only if view all lists nothing in it,
\* no entry is ever left without its category, and categories del reports
\* Category not found for an absent category and Category not empty, changing
\* nothing, for one that view all lists entries of
C6_RemoveOnlyEmpty ==
    [][ /\ \A d \in dirs \ dirs' : ViewAll(d[1], d[2]) = <<>>
        /\ \A f \in DOMAIN files' : <<f[1], f[2]>> \in dirs'
        /\ \A c \in CategoryWords :
              do_categories(<<"d", "e", "l", " ">> \o c) =>
                 IF <<username, c>> \notin dirs
                 THEN out'.msg = "Category not found." /\ disk' = disk
                 ELSE IF ViewAll(username, c) # <<>>
                 THEN out'.msg = "Category not empty. Delete files first." /\ disk' = disk
                 ELSE dirs' = dirs \ { <<username, c>> } /\ files' = files
      ]_vars

\* C6 witness: the removal of a category with an entry was refused
C6_Witness ==
    /\ out.msg = "Category not empty. Delete files first."
    /\ <<username, Notes>> \in dirs
    /\ ViewAll(username, Notes) # <<>>

\* C7 as stated: right after save notes My Title|..., view notes "my   title"
\* shows the entry, as view notes My Title does
C7_Original ==
    [][ out'.msg = "Saved:" =>
        \A x \in Contents, now \in 0..MaxClock :
           Saved(Notes, MyTitle, x, now) =>
              \A v \in { ViewedNext(Notes, myTitleLower) },
                 w \in { ViewedNext(Notes, MyTitle) } :
                 v.msg = "entry" /\ v = w
      ]_vars

\* C7: right after a save under My Title, with one blank or two between the
\* words, a view under either spelling shows the entry just saved
C7_WhitespaceRoundTrip ==
    [][ out'.msg = "Saved:" =>
        \A t1, t2 \in {MyTitle, MyTitleWide}, x \in Contents, now \in 0..MaxClock :
           Saved(Notes, t1, x, now) =>
              \A v \in { ViewedNext(Notes, t2) } :
                 v.msg = "entry" /\ IsEntryOf(v.body, t1, x, now)
      ]_vars

\* C7 witness: a view shows the entry saved under My Title
C7_Witness ==
    /\ pc = "cmd" /\ out.msg = "entry"
    /\ Contains(out.body, <<"\n", "T", "i", "t", "l", "e", ":", " ">> \o MyTitle \o <<"\n">>)

\* C8: right after a save under any title of any existing category, a view
\* under that title shows the content saved, with the footer
C8_SaveThenView ==
    [][ out'.msg = "Saved:" =>
        \A c \in CategoryWords, t \in SaveTitles, x \in Contents, now \in 0..MaxClock :
           Saved(c, t, x, now) =>
              \A v \in { ViewedNext(c, t) } :
                 v.msg = "entry" /\ IsEntryOf(v.body, t, x, now)
      ]_vars

\* C9: a save that repeats the save an entry comes from (same category, title
\* and content) leaves the set of files as it is, changes no other file, and
\* leaves the entry, and what view prints for it, the same but for the time
C9_ResaveIdempotent ==
    [][ out'.msg = "Saved:" =>
        \A c \in CategoryWords, t \in SaveTitles, x \in Contents, now \in 0..MaxClock :
           \A key \in { <<username, c, EntryFile(t)>> } :
              ( /\ key \in DOMAIN files
                /\ \E before \in 0..MaxClock :
                      files[key] = EntryText(c, t, x, FormatTime(before))
                /\ Saved(c, t, x, now) )
              => \A v \in { Viewed(c, t) }, w \in { ViewedNext(c, t) } :
                   /\ DOMAIN files' = DOMAIN files
                   /\ \A k \in DOMAIN files \ {key} : files'[k] = files[k]
                   /\ files'[key] = EntryText(c, t, x, FormatTime(now))
                   /\ w.msg = v.msg /\ w.names = v.names
                   /\ w.body \in {<<>>, files'[key]}
      ]_vars

\* C9 witness: an entry was saved again, a second later
C9_Witness ==
    /\ out.msg = "Saved:" /\ clock = 1
    /\ <<username, Notes, EntryFile(MyTitle)>> \in DOMAIN files
    /\ files[<<username, Notes, EntryFile(MyTitle)>>]
          = EntryText(Notes, MyTitle, <<"b", "o", "d", "y">>, FormatTime(1))

\* the entry files the saves and edits of the model can write
Entries ==
    { [category |-> c, title |-> t, content |-> x, time |-> ts,
       text |-> EntryText(c, t, x, FormatTime(ts))] :
         c \in CategoryWords, t \in SaveTitles, x \in Contents, ts \in 0..MaxClock }

\* the text is an entry file of the category
IsEntry(text, category) == \E e \in Entries : e.text = text /\ e.category = category

\* the title in the footer of an entry file
TitleOf(text, category) ==
    (CHOOSE e \in Entries : e.text = text /\ e.category = category).title

\* the titles are the same words, whatever the whitespace around and between them
SameWords(t1, t2) == Split(t1, -1) = Split(t2, -1)

\* C10: every file is an entry, no two files of a category of an account hold
\* titles made of the same words, and a save under a title made of the same
\* words as an entry's title replaces that entry (content and title) without
\* adding a file
C10_UniqueByNormalizedTitle ==
    [][ (files' # files) =>
        \A new \in { files' } :
        /\ \A f \in DOMAIN new : IsEntry(new[f], f[2])
        /\ \A f1 \in DOMAIN new : \A f2 \in DOMAIN new \ {f1} :
              (f1[1] = f2[1] /\ f1[2] = f2[2]) =>
                 ~SameWords(TitleOf(new[f1], f1[2]), TitleOf(new[f2], f2[2]))
        /\ \A c \in CategoryWords, t \in SaveTitles, x \in Contents, now \in 0..MaxClock :
              Saved(c, t, x, now) =>
                 \A f \in DOMAIN files :
                    (f[1] = username /\ f[2] = c /\ SameWords(TitleOf(files[f], c), t)) =>
                       /\ DOMAIN new = DOMAIN files
                       /\ new[f] = EntryText(c, t, x, FormatTime(now))
      ]_vars

\* C10 witness: the only entry of the account carries the title typed with two
\* blanks, saved at the second second
C10_Witness ==
    /\ out.msg = "Saved:" /\ Cardinality(DOMAIN files) = 1
    /\ \E f \in DOMAIN files, x \in Contents :
          files[f] = EntryText(Notes, MyTitleWide, x, FormatTime(1))

\* the step is an edit of (category, title) with the content at time now
Edited(category, title, content, now) ==
    \E a \in { SaveArg(category, title, content) } : do_edit(a, now)

\* C11: an edit of an entry whose file is not in the category, the category
\* absent or not, reports Entry not found and changes nothing on disk; an edit
\* of an entry that is there leaves the set of files and every other file as
\* they are and makes the entry the new content with the footer of the edit,
\* nothing of the old text kept (the time of an edit is the clock after it)
C11_EditNeedsEntry ==
    [][ out'.msg \in {"Entry not found.", "Entry updated."} =>
        \A c \in CategoryWords, t \in SaveTitles, x \in Contents, now \in {clock'} :
           \A key \in { <<username, c, EntryFile(t)>> } :
              IF key \notin DOMAIN files
              THEN \/ out'.msg = "Entry not found." /\ disk' = disk
                   \/ ~Edited(c, t, x, now)
              ELSE \/ /\ out'.msg = "Entry updated."
                      /\ DOMAIN files' = DOMAIN files
                      /\ \A k \in DOMAIN files \ {key} : files'[k] = files[k]
                      /\ files'[key] = EntryText(c, t, x, FormatTime(now))
                      /\ Len(files'[key]) = Len(x) + Len(EntryText(c, t, <<>>, FormatTime(now)))
                      /\ <<dirs', users', config', shortcuts'>> = <<dirs, users, config, shortcuts>>
                   \/ ~Edited(c, t, x, now)
      ]_vars

\* C11 witness: an edit replaced the content body of an entry by Hi
C11_Witness ==
    /\ pc = "cmd" /\ out.msg = "Entry updated."
    /\ \E f \in DOMAIN files, e \in Entries : files[f] = e.text /\ e.content = <<"H", "i">>

(***************************************************************************)
(* Properties of a session with every command, under SpecSession           *)
(***************************************************************************)
\* the messages that report an error of a command
ErrorMessages ==
    { "Category does not exist.", "Entry not found.", "Category not found.",
      "Category not empty. Delete files first.", "Alias not found.",
      "Usage: save <category> <title>|<content>", "Usage: edit <category> <title>|<new_content>",
      "Usage: view <category> <title|all>", "Usage: delete <category> <title>",
      "Usage: search <category> <keyword>", "Usage: categories [list|add <name>|del <name>]",
      "Usage: webdel <alias>", "Usage: webadd <alias> <url>", "Usage: web <url|alias>",
      "Usage: prompt <text>", "Usage: banner [on|off]", "Usage: calc <expression>",
      "Themes: dark, light, hacker", "Error:", "Incorrect old PIN.", "Wrong PIN.",
      "Invalid PIN format.", "PINs do not match.", "No PIN set.",
      "No PIN set. Use 'setpin' to create one." }

\* the step is one of the commands the state makes fail: a save into an absent
\* category; a delete, edit or view of an absent entry; the removal of an
\* absent or a non-empty category; the deletion of an absent alias; a
\* malformed line; setpin or clearpin with a wrong current PIN
ErringCommand ==
    /\ pc = "cmd"
    /\ \/ /\ <<username, <<"w">> >> \notin dirs
          /\ \/ do_save(SaveArg(<<"w">>, <<"A", "l", "l">>, <<"H", "i">>), clock)
             \/ do_categories(<<"d", "e", "l", " ", "w">>)
       \/ /\ <<username, Notes, EntryFile(MyTitle)>> \notin DOMAIN files
          /\ \/ do_delete(ViewArg(Notes, MyTitle))
             \/ do_edit(SaveArg(Notes, MyTitle, <<"b", "o", "d", "y">>), clock)
             \/ do_view(ViewArg(Notes, MyTitle))
       \/ /\ <<username, Notes>> \in dirs /\ FilesIn(username, Notes) # {}
          /\ do_categories(<<"d", "e", "l", " ", "n", "o", "t", "e", "s">>)
       \/ /\ <<"z", "z">> \notin DOMAIN LoadShortcuts(username)
          /\ do_webdel(<<"z", "z">>)
       \/ do_save(<<"n", "o", "t", "e", "s", " ", "A", "l", "l">>, clock)
       \/ do_edit(<<"n", "o", "t", "e", "s", " ", "A", "l", "l">>, clock)
       \/ do_view(Notes)
       \/ do_delete(Notes)
       \/ do_categories(<<"d", "e", "l">>)
       \/ do_webadd(<<"a">>)
       \/ do_webdel(<<>>)
       \/ \E l \in SessionPinLines :
             /\ pin_hash # None /\ shash(Strip(l)) # pin_hash
             /\ do_setpin(l) \/ do_clearpin(l)

\* C12: a step that reports an error leaves the accounts, categories, entries,
\* aliases and preferences on disk as they are, and every command the state
\* makes fail reports an error
C12_ErrorsChangeNothing ==
    [][ /\ out'.msg \in ErrorMessages => disk' = disk
        /\ out'.msg \notin ErrorMessages => ~ErringCommand
      ]_vars

\* C12 witness: the deletion of an absent alias was refused in a session that
\* has an entry, an alias of its own and a PIN
C12_Witness ==
    /\ pc = "cmd" /\ out.msg = "Alias not found."
    /\ DOMAIN files # {} /\ <<"a">> \in DOMAIN shortcuts[username] /\ pin_hash # None

\* a string of 4 to 8 of the decimal digits 0 to 9
DecimalPin(pin) ==
    /\ 4 <= Len(pin) /\ Len(pin) <= 8
    /\ \A i \in 1..Len(pin) : pin[i] \in {"0", "1", "2", "3", "4", "5", "6", "7", "8", "9"}

\* C13: in every state the PIN of every account is absent or the hash of a
\* string of 4 to 8 decimal digits
C13_PinIsDecimalDigits ==
    \A u \in DOMAIN users :
       \/ users[u].pin_hash = None
       \/ \E p \in SessionPinLines \cup PinLines : DecimalPin(p) /\ users[u].pin_hash = shash(p)

(***************************************************************************)
(* Accounts over any number of process runs, under SpecAuth                *)
(***************************************************************************)
\* C14: no step removes an account or changes the password hash of one; a
\* username that is empty or already registered is refused and the loop asks
\* again; an empty password is refused; and the account a registration adds
\* is a new one with the hash of the password chosen
C14_RegistrationNeverOverwrites ==
    [][ /\ DOMAIN users \subseteq DOMAIN users'
        /\ \A u \in DOMAIN users : users'[u].password_hash = users[u].password_hash
        /\ \A u \in DOMAIN users' \ DOMAIN users :
              /\ pc \in {"reg_setpin", "reg_pin"}
              /\ u = reg.username /\ reg.pw # <<>> /\ u # <<>>
              /\ users'[u].password_hash = shash(reg.pw)
              /\ DOMAIN users' = DOMAIN users \cup {u}
        /\ \A l \in UsernameLines :
              \/ ~(Strip(l) \in DOMAIN users \cup {<<>>})
              \/ ~register_username(l)
              \/ /\ out'.msg = IF Strip(l) = <<>> THEN "Username cannot be empty."
                                ELSE "User already exists. Pick another name."
                 /\ pc' = "reg_user" /\ reg' = reg /\ disk' = disk
        /\ \A l \in PasswordLines, c \in PasswordLines :
              \/ Strip(l) # <<>>
              \/ ~register_password(l, c)
              \/ /\ out'.msg = "Password cannot be empty."
                 /\ pc' = "reg_pw" /\ reg' = reg /\ disk' = disk
      ]_vars

\* C14 witness: with two accounts stored, one of them with a PIN, a
\* registration under a name in use was refused
C14_Witness ==
    /\ pc = "reg_user" /\ out.msg = "User already exists. Pick another name."
    /\ Cardinality(DOMAIN users) = 2
    /\ \E u \in DOMAIN users : users[u].pin_hash # None

(***************************************************************************)
(* Search, under SpecSearch                                                *)
(***************************************************************************)
\* the well-formed searches typed, each with the category it names and its
\* keyword in lower case
SearchCases ==
    { [arg |-> <<"n", "o", "t", "e", "s", " ", "h", "i">>, category |-> <<"n", "o", "t", "e", "s">>,
       keyword |-> <<"h", "i">>],
      [arg |-> <<"n", "o", "t", "e", "s", " ", "T", "I", "T", "L", "E">>, category |-> <<"n", "o", "t", "e", "s">>,
       keyword |-> <<"t", "i", "t", "l", "e">>],
      [arg |-> <<"w", " ", "a", "l", "l">>, category |-> <<"w">>,
       keyword |-> <<"a", "l", "l">>],
      [arg |-> <<"n", "o", "t", "e", "s", " ", "s", "a", "v", "e", "d", " ", "o", "n", ":">>, category |-> <<"n", "o", "t", "e", "s">>,
       keyword |-> <<"s", "a", "v", "e", "d", " ", "o", "n", ":">>],
      [arg |-> <<" ", "n", "o", "t", "e", "s", " ", " ", "M", "y", " ", " ", "t", "i", "t", "l", "e", " ">>, category |-> <<"n", "o", "t", "e", "s">>,
       keyword |-> <<"m", "y", " ", " ", "t", "i", "t", "l", "e">>] }

\* the text holds the word at some position
Within(text, word) ==
    \E i \in 1..(Len(text) - Len(word) + 1) : SubSeq(text, i, i + Len(word) - 1) = word

\* C15: a search changes nothing on disk nor in the session; for an absent
\* category it reports Category not found; otherwise its matches are exactly
\* the file names of the entries of that category of the user whose stored
\* text, footer included, holds the keyword when both are put in lower case
C15_SearchExactMatches ==
    [][ \A s \in SearchCases :
           \/ out'.msg \notin {"Matches:", "(no matches)", "Category not found."}
           \/ ~do_search(s.arg)
           \/ /\ disk' = disk /\ session' = session /\ pc' = pc
              /\ IF <<username, s.category>> \notin dirs
                 THEN out'.msg = "Category not found." /\ out'.hits = {}
                 ELSE /\ \A k \in DOMAIN files :
                            (k[1] = username /\ k[2] = s.category /\ Within(Lower(files[k]), s.keyword))
                            => k[3] \in out'.hits
                      /\ \A h \in out'.hits :
                            \E k \in DOMAIN files :
                               /\ k = <<username, s.category, h>>
                               /\ Within(Lower(files[k]), s.keyword)
                      /\ out'.msg = IF out'.hits = {} THEN "(no matches)" ELSE "Matches:"
      ]_vars

\* C15 witness: of two entries of notes and one of another category that
\* holds Hi as well, a search found the one entry of notes with hi in it
C15_Witness ==
    /\ pc = "cmd" /\ out.msg = "Matches:" /\ out.hits = { EntryFile(<<"A", "l", "l">>) }
    /\ Cardinality(FilesIn(username, Notes)) = 2
    /\ \E k \in DOMAIN files : k[2] = <<"w">> /\ Within(files[k], <<"H", "i">>)
    /\ \E k \in DOMAIN files : k[2] = Notes /\ ~Within(Lower(files[k]), <<"h", "i">>)

(***************************************************************************)
(* The workspace of an account over logins, under SpecSession              *)
(***************************************************************************)
\* C16: the step that authenticates a session, a registration or a login,
\* leaves every entry, every category on disk and every stored preferences
\* record and alias mapping as they are; what it adds is default categories
\* of the account, the preferences dark, myterm> , banner on if the account
\* had none, and the two seed aliases if the account had none; done once
\* more on the result it would change nothing
C16_InitNonDestructive ==
    [][ (~authenticated /\ authenticated') =>
        \A u \in {username'} :
           /\ files' = files
           /\ dirs \subseteq dirs'
           /\ dirs' \ dirs \subseteq { <<u, c>> : c \in DEFAULT_CATEGORIES }
           /\ DOMAIN config' = DOMAIN config \cup {u}
           /\ \A v \in DOMAIN config : config'[v] = config[v]
           /\ u \notin DOMAIN config =>
                 config'[u] = [theme |-> <<"d", "a", "r", "k">>,
                               prompt |-> <<"m", "y", "t", "e", "r", "m", ">", " ">>,
                               banner |-> TRUE]
           /\ DOMAIN shortcuts' = DOMAIN shortcuts \cup {u}
           /\ \A v \in DOMAIN shortcuts : shortcuts'[v] = shortcuts[v]
           /\ u \notin DOMAIN shortcuts =>
                 /\ DOMAIN shortcuts'[u] = { <<"y", "t">>, <<"g", "g">> }
                 /\ shortcuts'[u] = DefaultShortcuts
           /\ InitDirs(u)' = dirs' /\ InitConfig(u)' = config' /\ InitShortcuts(u)' = shortcuts'
      ]_vars

\* C16 witness: a login into an account that has an entry, a theme other than
\* the default, the banner off, a prompt and an alias of its own
C16_Witness ==
    /\ pc = "cmd" /\ out.msg = "Login successful."
    /\ DOMAIN files # {}
    /\ config[username].theme = <<"h", "a", "c", "k", "e", "r">>
    /\ config[username].prompt # DefaultPrompt /\ ~config[username].banner
    /\ <<"a">> \in DOMAIN shortcuts[username]

(***************************************************************************)
(* Preferences and PIN of a session, under SpecSession                     *)
(***************************************************************************)
\* the three themes
ThemeNames ==
    { <<"d", "a", "r", "k">>, <<"l", "i", "g", "h", "t">>, <<"h", "a", "c", "k", "e", "r">> }

\* C17: in every state the theme of the session and the theme of every stored
\* preferences record is dark, light or hacker; a theme command that names
\* another word is refused and leaves the theme of the session and the stored
\* preferences as they are
C17_ThemeEnumerated ==
    /\ [](theme \in ThemeNames /\ \A u \in DOMAIN config : config[u].theme \in ThemeNames)
    /\ [][ \A a \in SessionThemeArgs :
             \/ Lower(Strip(a)) \in ThemeNames
             \/ ~do_theme(a)
             \/ /\ out'.msg = "Themes: dark, light, hacker"
                /\ theme' = theme /\ config' = config
          ]_vars

\* C17 witness: the theme blue was refused in a session whose theme is hacker,
\* after a prompt and a banner command
C17_Witness ==
    /\ pc = "cmd" /\ out.msg = "Themes: dark, light, hacker"
    /\ theme = <<"h", "a", "c", "k", "e", "r">> /\ config[username].theme = theme
    /\ custom_prompt # DefaultPrompt /\ ~banner_on

\* C18: an authenticated session ends only by the command exit or quit or by
\* an interrupt at a prompt, with exit status 0
C18_OnlyExitEndsSession ==
    [][ (authenticated /\ pc # "terminated" /\ pc' = "terminated") =>
           /\ do_exit \/ KeyboardInterrupt
           /\ exit_code' = 0
      ]_vars

(***************************************************************************)
(* The calculator, under SpecCalc                                          *)
(***************************************************************************)
\* the tree is built from literals of numbers (int, float, complex), the
\* binary operators + - * / // % ** ^ & | << >> and the unary + and - only
RECURSIVE Arithmetic(_)
Arithmetic(node) ==
    CASE node.node = "Constant" -> node.type \in {"int", "float", "complex"}
      [] node.node = "BinOp" ->
            /\ node.op \in {"Add", "Sub", "Mult", "Div", "FloorDiv", "Mod", "Pow", "BitXor",
                             "BitAnd", "BitOr", "LShift", "RShift"}
            /\ Arithmetic(node.left) /\ Arithmetic(node.right)
      [] node.node = "UnaryOp" -> node.op \in {"UAdd", "USub"} /\ Arithmetic(node.operand)
      [] OTHER -> FALSE

\* C19: calc changes nothing but what it prints, and it prints a result only
\* for a tree built from literals of numbers, the listed binary operators and
\* unary + and -; for every other tree it prints an error
C19_OnlyArithmeticEvaluates ==
    [][ \A e \in CalcTrees :
           \/ ~do_calc(e)
           \/ /\ disk' = disk /\ session' = session /\ pc' = pc
              /\ out'.msg = "result" => Arithmetic(e)
              /\ ~Arithmetic(e) => out'.msg = "Error:"
      ]_vars

\* C20: whenever an authenticated session waits for a command, its theme,
\* prompt and banner switch are those of the stored preferences of its account
\* and its PIN hash is the stored PIN hash of its account
C20_SessionMirrorsDisk ==
    (authenticated /\ pc = "cmd") =>
       /\ username \in DOMAIN users /\ username \in DOMAIN config
       /\ theme = config[username].theme
       /\ custom_prompt = config[username].prompt
       /\ banner_on = config[username].banner
       /\ pin_hash = users[username].pin_hash

\* C20 witness: a setpin with a wrong old PIN was refused in a session that
\* has a PIN, the theme hacker, a prompt of its own and the banner off
C20_Witness ==
    /\ authenticated /\ pc = "cmd" /\ out.msg = "Incorrect old PIN."
    /\ pin_hash # None /\ theme = <<"h", "a", "c", "k", "e", "r">>
    /\ custom_prompt = <<"h", "i">> /\ ~banner_on

(***************************************************************************)
(* The categories of an account over sessions, under SpecData              *)
(***************************************************************************)
\* C21: after the step that authenticates a session, a registration or a
\* login, the categories notes, contacts, passwords and projects of the
\* account exist, whether or not they did before; and every other category
\* there is after the step was there before it
C21_DefaultsRestored ==
    [][ (~authenticated /\ authenticated') =>
           /\ \A c \in { <<"n", "o", "t", "e", "s">>, <<"c", "o", "n", "t", "a", "c", "t", "s">>,
                          <<"p", "a", "s", "s", "w", "o", "r", "d", "s">>,
                          <<"p", "r", "o", "j", "e", "c", "t", "s">> } :
                 <<username', c>> \in dirs'
           /\ \A d \in dirs' \ dirs : d[1] = username' /\ d[2] # <<"w">>
           /\ <<username', <<"w">> >> \in dirs' <=> <<username', <<"w">> >> \in dirs
      ]_vars

\* C21 witness: a later run of the process asks for the login of an account
\* whose category notes was removed in an earlier session, and whose own
\* category is not on disk either
C21_Witness ==
    /\ pc = "login" /\ ~authenticated
    /\ <<"a", "l">> \in DOMAIN users
    /\ << <<"a", "l">>, Notes>> \notin dirs
    /\ << <<"a", "l">>, <<"w">> >> \notin dirs
    /\ << <<"a", "l">>, <<"c", "o", "n", "t", "a", "c", "t", "s">> >> \in dirs

(***************************************************************************)
(* The frame of the entry commands, under SpecFrame                        *)
(***************************************************************************)
\* C22: a save, an edit or a delete that succeeds on a category and a title
\* changes no file but the one of the normalized title in that category of
\* the session's account, and changes no category, alias, preference or
\* account
C22_NarrowFrame ==
    [][ out'.msg \in {"Saved:", "Entry updated.", "Deleted"} =>
        \A c \in {Notes, Contacts}, t \in FrameTitles :
           \/ ~ \/ \E x \in FrameContents : do_save(SaveArg(c, t, x), clock)
                \/ \E x \in FrameContents : do_edit(SaveArg(c, t, x), clock)
                \/ do_delete(ViewArg(c, t))
           \/ /\ \A k \in (DOMAIN files \cup DOMAIN files') \ { <<username, c, EntryFile(t)>> } :
                    k \in DOMAIN files /\ k \in DOMAIN files' /\ files'[k] = files[k]
              /\ <<users', dirs', config', shortcuts'>> = <<users, dirs, config, shortcuts>>
      ]_vars

====
